---- MODULE Spec2Model ----
(***************************************************************************)
(* Model of the useAntiInspect hook (src/useAntiInspect.js).               *)
(*                                                                         *)
(* One guard is one run of the effect body (one mounted consumer). The     *)
(* state is the process-wide console, the event listener list, the two     *)
(* storage areas, the cookie jar and, per guard, the closure variable      *)
(* consoleOutput.  Strings are sequences of tokens: single characters,     *)
(* plus the lexemes "expires", "path", "app" and the epoch date.           *)
(***************************************************************************)
EXTENDS Integers, Sequences, FiniteSets, TLC

\* ------------------------------------------------------------ bounds
\* How often one guard's cleanup function may be called.
MaxCleanups == 2

\* ------------------------------------------------- program constants
Threshold == 160
KeyC == 67
KeyI == 73
KeyJ == 74
KeyU == 85
KeyF12 == 123

\* new Date(0).toUTCString()
EpochDate == "Thu, 01 Jan 1970 00:00:00 GMT"

\* ------------------------------------------------------------ strings
\* String.prototype.indexOf for a one-token needle; 0 when absent.
IndexOf(s, c) ==
  IF \E i \in 1..Len(s) : s[i] = c
  THEN CHOOSE i \in 1..Len(s) : s[i] = c /\ \A j \in 1..(i - 1) : s[j] # c
  ELSE 0

\* String.prototype.split(sep): "" splits into one empty entry.
RECURSIVE Split(_, _)
Split(s, sep) ==
  LET i == IndexOf(s, sep)
  IN IF i = 0 THEN <<s>>
     ELSE <<SubSeq(s, 1, i - 1)>> \o Split(SubSeq(s, i + 1, Len(s)), sep)

\* A replace that matches nothing: the entry keeps its leading space.
KeepLeadingSpaces(s) == s

\* cookie.replace(/^ +/, ""): every leading space goes.
RECURSIVE ReplaceLeadingSpaces(_)
ReplaceLeadingSpaces(s) ==
  IF s # <<>> /\ Head(s) = " " THEN ReplaceLeadingSpaces(Tail(s)) ELSE s

\* `=;expires=${new Date(0).toUTCString()};path=/`
ExpirySuffix == <<"=", ";", "expires", "=", EpochDate, ";", "path", "=", "/">>

\* .replace(/=.*/, suffix): from the first "=" to the end; unchanged without "=".
ReplaceFromEquals(s) ==
  LET i == IndexOf(s, "=")
  IN IF i = 0 THEN s ELSE SubSeq(s, 1, i - 1) \o ExpirySuffix

\* The string one forEach iteration assigns to document.cookie.
ExpiryAssignment(cookie) == ReplaceFromEquals(ReplaceLeadingSpaces(cookie))


\* ------------------------------------------- document.cookie (browser)
\* A cookie is [name, value, path]; the jar lists them in creation order.
Cookie(n, v, p) == [name |-> n, value |-> v, path |-> p]

RootPath == <<"/">>
\* The default path of a cookie set without a path attribute: the directory
\* of the document's URL. The document lives under /app.
DocumentPath == <<"/", "app">>

RECURSIVE TrimLeft(_)
TrimLeft(s) ==
  IF s # <<>> /\ Head(s) = " " THEN TrimLeft(Tail(s)) ELSE s

RECURSIVE TrimRight(_)
TrimRight(s) ==
  IF s # <<>> /\ s[Len(s)] = " " THEN TrimRight(SubSeq(s, 1, Len(s) - 1)) ELSE s

Trim(s) == TrimRight(TrimLeft(s))

\* name=value, or the bare value of a cookie without a name.
Serialize(c) == IF c.name = <<>> THEN c.value ELSE c.name \o <<"=">> \o c.value

RECURSIVE Join(_)
Join(ss) ==
  IF ss = <<>> THEN <<>>
  ELSE IF Len(ss) = 1 THEN ss[1]
  ELSE ss[1] \o <<";", " ">> \o Join(Tail(ss))

\* Reading document.cookie: every cookie of the jar is visible to the document
\* (at /app/...), longer paths first, joined by "; ".
CookieGetter(jar) ==
  LET deep == SelectSeq(jar, LAMBDA c : c.path # RootPath)
      root == SelectSeq(jar, LAMBDA c : c.path = RootPath)
      ordered == deep \o root
  IN Join([i \in 1..Len(ordered) |-> Serialize(ordered[i])])

AttrName(part) ==
  LET i == IndexOf(part, "=")
  IN IF i = 0 THEN Trim(part) ELSE Trim(SubSeq(part, 1, i - 1))

AttrValue(part) ==
  LET i == IndexOf(part, "=")
  IN IF i = 0 THEN <<>> ELSE Trim(SubSeq(part, i + 1, Len(part)))

\* Writing document.cookie = s: one cookie is set, replaced or, with an expiry
\* date in the past, removed; the cookie it names is the one with the same
\* name and path. A string with neither name nor value is ignored.
CookieSetter(jar, s) ==
  LET parts == Split(s, ";")
      pair == parts[1]
      i == IndexOf(pair, "=")
      name == IF i = 0 THEN <<>> ELSE Trim(SubSeq(pair, 1, i - 1))
      value == IF i = 0 THEN Trim(pair) ELSE Trim(SubSeq(pair, i + 1, Len(pair)))
      attrs == 2..Len(parts)
      expired == \E k \in attrs :
                   AttrName(parts[k]) = <<"expires">> /\ AttrValue(parts[k]) = <<EpochDate>>
      paths == {k \in attrs : AttrName(parts[k]) = <<"path">>
                              /\ AttrValue(parts[k]) # <<>>
                              /\ Head(AttrValue(parts[k])) = "/"}
      path == IF paths = {} THEN DocumentPath
              ELSE AttrValue(parts[CHOOSE k \in paths : \A j \in paths : j <= k])
      same(c) == c.name = name /\ c.path = path
      new == Cookie(name, value, path)
  IN IF name = <<>> /\ value = <<>> THEN jar
     ELSE IF expired THEN SelectSeq(jar, LAMBDA c : ~same(c))
     ELSE IF \E k \in 1..Len(jar) : same(jar[k])
          THEN [k \in 1..Len(jar) |-> IF same(jar[k]) THEN new ELSE jar[k]]
          ELSE Append(jar, new)

\* The assignments of one forEach, applied in order.
RECURSIVE AssignAll(_, _)
AssignAll(jar, assignments) ==
  IF assignments = <<>> THEN jar
  ELSE AssignAll(CookieSetter(jar, Head(assignments)), Tail(assignments))

\* Cookie jars the page may hold when the guard is mounted.
InitialJars ==
  { <<>>,
    <<Cookie(<<"a">>, <<"1">>, RootPath)>>,
    <<Cookie(<<"a">>, <<"1">>, RootPath), Cookie(<<"b">>, <<"2">>, RootPath)>>,
    <<Cookie(<<"c">>, <<"x", "=", "y">>, RootPath)>>,
    <<Cookie(<<"a">>, <<"1">>, DocumentPath)>>,
    <<Cookie(<<"a">>, <<"1">>, RootPath), Cookie(<<>>, <<"f">>, DocumentPath)>> }

\* ------------------------------------------------------------- state
\* Two mounted consumers of the hook.
Guards == {"A", "B"}
Slots == {"log", "warn", "error", "debug", "info"}
Surfaces == {"local", "session", "cookie"}

\* Function values: what the host page holds in a console slot, and the
\* `function () {}` objects one run of the effect creates (lines 98-102).
HostFn(slot, variant) == <<"host", slot, variant>>
Noop(slot, g) == <<"noop", slot, g>>
NoFn == <<"undefined", "", "">>
IsNoop(f) == f[1] = "noop"

\* Consoles of the host page: the native one, an instrumented one, and one
\* whose warn slot is the very function of its log slot.
HostConsoles ==
  { [s \in Slots |-> HostFn(s, "native")],
    [s \in Slots |-> HostFn(s, "instrumented")],
    [s \in Slots |-> IF s = "warn" THEN HostFn("log", "native") ELSE HostFn(s, "native")] }

\* Which storage surface throws on access in the hosting context: none, or one.
Unavailabilities == {{}} \cup {{x} : x \in Surfaces}

\* Window geometries: the differences are 159, 160 and 161 wide, 160 and 161 high.
Viewports ==
  [outerWidth : {1159, 1160, 1161}, innerWidth : {1000},
   outerHeight : {960, 961}, innerHeight : {800}]

\* Keys are pressed with a panel docked on both sides of the threshold.
DockedViewports == {vp \in Viewports : vp.outerWidth = 1161 /\ vp.outerHeight = 961}

\* A resize event carries no keyCode unless the dispatcher put one on it.
ResizeEvents == {[type |-> "resize"], [type |-> "resize", keyCode |-> KeyF12]}
\* A right click, or the menu opened with ctrl and the primary button.
MouseEvents ==
  {[type |-> "contextmenu", button |-> 2, ctrlKey |-> FALSE],
   [type |-> "contextmenu", button |-> 0, ctrlKey |-> TRUE]}
KeyCodes == {65, KeyC, KeyI, KeyJ, KeyU, KeyF12}
KeyboardEvents ==
  [type : {"keydown"}, keyCode : KeyCodes, ctrlKey : BOOLEAN, shiftKey : BOOLEAN]

Listener(target, type, handler) == [target |-> target, type |-> type, handler |-> handler]

VARIABLES
  console,        \* the five logging slots of the page
  listeners,      \* registered listeners, in registration order
  status,         \* per guard: "idle", "active" (effect ran), "torn" (cleanup ran)
  consoleOutput,  \* per guard: the closure variable of line 97
  cleanups,       \* per guard: how often its cleanup function was called
  local,          \* localStorage keys
  session,        \* sessionStorage keys
  jar,            \* the cookie jar
  unavailable,    \* storage surfaces that throw on access
  preActivation,  \* history: per guard, the console as it was when the effect started
  last            \* history: what the latest step did

vars == <<console, listeners, status, consoleOutput, cleanups, local, session, jar,
          unavailable, preActivation, last>>

NoConsole == [s \in Slots |-> NoFn]

NativeConsole == [s \in Slots |-> HostFn(s, "native")]
TwoCookies == <<Cookie(<<"a">>, <<"1">>, RootPath), Cookie(<<"b">>, <<"2">>, RootPath)>>

\* The page at mount time, varied one factor at a time: the console, the
\* cookie jar, the storage surface that is unavailable.
Pages ==
  [console : HostConsoles, jar : {TwoCookies}, unavailable : {{}}]
  \cup [console : {NativeConsole}, jar : InitialJars, unavailable : {{}}]
  \cup [console : {NativeConsole}, jar : {TwoCookies}, unavailable : Unavailabilities]

Init ==
  /\ \E p \in Pages : console = p.console /\ jar = p.jar /\ unavailable = p.unavailable
  /\ listeners = <<>>
  /\ status = [g \in Guards |-> "idle"]
  /\ consoleOutput = [g \in Guards |-> NoFn]
  /\ cleanups = [g \in Guards |-> 0]
  /\ local = {"token"}
  /\ session = {"sid"}
  /\ preActivation = [g \in Guards |-> NoConsole]
  /\ last = [op |-> "init"]

\* ------------------------------------------------------------ handlers
\* The running state of one event dispatch: the stores, the calls made, the
\* event's defaultPrevented flag, the guards whose handler threw.
Context ==
  [local |-> local, session |-> session, jar |-> jar, trace |-> <<>>,
   defaultPrevented |-> FALSE, uncaught |-> <<>>, wipes |-> <<>>]

\* A statement of handleDevToolsOpen throws: the rest of the handler is skipped
\* and the exception leaves the listener.
Throw(c, g, cleared) ==
  [c EXCEPT !.uncaught = Append(@, g),
            !.wipes = Append(@, [g |-> g, threw |-> TRUE, cleared |-> cleared,
                                 cookie |-> <<>>, assignments |-> <<>>])]

CookieEntries(str) == Split(str, ";")

handleDevToolsOpen(c, g) ==
  LET c0 == [c EXCEPT !.trace = Append(@, <<g, "handleDevToolsOpen">>)]
      c1 == [c0 EXCEPT !.local = {}]
      c2 == [c1 EXCEPT !.session = {}]
      str == CookieGetter(c2.jar)
      entries == CookieEntries(str)
      assignments == [i \in 1..Len(entries) |-> ExpiryAssignment(entries[i])]
  IN IF "local" \in unavailable THEN Throw(c0, g, {})
     ELSE IF "session" \in unavailable THEN Throw(c1, g, {"local"})
     ELSE IF "cookie" \in unavailable THEN Throw(c2, g, {"local", "session"})
     ELSE [c2 EXCEPT !.jar = AssignAll(@, assignments),
                     !.wipes = Append(@, [g |-> g, threw |-> FALSE, cleared |-> Surfaces,
                                          cookie |-> str, assignments |-> assignments])]

preventDefault(c, g) ==
  [c EXCEPT !.defaultPrevented = TRUE, !.trace = Append(@, <<g, "preventDefault">>)]

\* The comparison written >= instead of >.
widthThresholdInclusive(vp) == vp.outerWidth - vp.innerWidth >= Threshold

widthThreshold(vp) == vp.outerWidth - vp.innerWidth > Threshold

heightThreshold(vp) == vp.outerHeight - vp.innerHeight > Threshold

\* e?.keyCode === 123
isF12(e) == "keyCode" \in DOMAIN e /\ e.keyCode = KeyF12

detectDevTools(c, g, e, vp) ==
  IF widthThreshold(vp) \/ heightThreshold(vp) \/ isF12(e)
  THEN handleDevToolsOpen(c, g)
  ELSE c

\* The two statements of the handler in the other order.
disableRightClickWipeFirst(c, g, e) == preventDefault(handleDevToolsOpen(c, g), g)

disableRightClick(c, g, e) == handleDevToolsOpen(preventDefault(c, g), g)

\* The first alternative without its shiftKey conjunct.
IsBlockedShortcutNoShift(e) ==
  \/ e.ctrlKey /\ (e.keyCode = KeyI \/ e.keyCode = KeyJ \/ e.keyCode = KeyC)
  \/ e.ctrlKey /\ e.keyCode = KeyU
  \/ e.keyCode = KeyF12

IsBlockedShortcut(e) ==
  \/ e.ctrlKey /\ e.shiftKey /\ (e.keyCode = KeyI \/ e.keyCode = KeyJ \/ e.keyCode = KeyC)
  \/ e.ctrlKey /\ e.keyCode = KeyU
  \/ e.keyCode = KeyF12

disableKeyboardShortcuts(c, g, e) ==
  IF IsBlockedShortcut(e)
  THEN handleDevToolsOpen(preventDefault(c, g), g)
  ELSE c

\* ------------------------------------------------- listeners (browser)
AddEventListener(ls, target, type, handler) ==
  IF \E i \in 1..Len(ls) : ls[i] = Listener(target, type, handler)
  THEN ls
  ELSE Append(ls, Listener(target, type, handler))

RemoveEventListener(ls, target, type, handler) ==
  SelectSeq(ls, LAMBDA l : l # Listener(target, type, handler))

Call(c, handler, e, vp) ==
  CASE handler[1] = "detectDevTools" -> detectDevTools(c, handler[2], e, vp)
    [] handler[1] = "disableRightClick" -> disableRightClick(c, handler[2], e)
    [] handler[1] = "disableKeyboardShortcuts" -> disableKeyboardShortcuts(c, handler[2], e)

\* The listeners of the event's target and type run in registration order; an
\* exception of one is reported to the page and the next still runs.
RECURSIVE DispatchEvent(_, _, _, _, _)
DispatchEvent(c, ls, target, e, vp) ==
  IF ls = <<>> THEN c
  ELSE LET l == Head(ls)
           c1 == IF l.target = target /\ l.type = e.type
                 THEN Call(c, l.handler, e, vp)
                 ELSE c
       IN DispatchEvent(c1, Tail(ls), target, e, vp)

\* ------------------------------------------------------------- actions
\* The effect body, lines 93-102.
Subscribed(ls, g) ==
  AddEventListener(
    AddEventListener(
      AddEventListener(ls, "window", "resize", <<"detectDevTools", g>>),
      "document", "contextmenu", <<"disableRightClick", g>>),
    "document", "keydown", <<"disableKeyboardShortcuts", g>>)

Silenced(g) == [s \in Slots |-> Noop(s, g)]

Activate(g) ==
  /\ status[g] = "idle"
  /\ listeners' = Subscribed(listeners, g)
  /\ consoleOutput' = [consoleOutput EXCEPT ![g] = console["log"]]
  /\ console' = Silenced(g)
  /\ status' = [status EXCEPT ![g] = "active"]
  /\ preActivation' = [preActivation EXCEPT ![g] = console]
  /\ last' = [op |-> "activate", g |-> g]
  /\ UNCHANGED <<cleanups, local, session, jar, unavailable>>

\* The cleanup function, lines 105-110.
\* A cleanup that removes the keydown handler from the window, where it was
\* never added.
UnsubscribedWrongTarget(ls, g) ==
  RemoveEventListener(
    RemoveEventListener(
      RemoveEventListener(ls, "window", "resize", <<"detectDevTools", g>>),
      "document", "contextmenu", <<"disableRightClick", g>>),
    "window", "keydown", <<"disableKeyboardShortcuts", g>>)

Unsubscribed(ls, g) ==
  RemoveEventListener(
    RemoveEventListener(
      RemoveEventListener(ls, "window", "resize", <<"detectDevTools", g>>),
      "document", "contextmenu", <<"disableRightClick", g>>),
    "document", "keydown", <<"disableKeyboardShortcuts", g>>)

\* A cleanup that drops its saved reference once it has restored it.
RestoredOnce(con, g) ==
  [con EXCEPT !["log"] = IF cleanups[g] = 0 THEN consoleOutput[g] ELSE NoFn]

Restored(con, g) == [con EXCEPT !["log"] = consoleOutput[g]]

Cleanup(g) ==
  /\ status[g] \in {"active", "torn"}
  /\ cleanups[g] < MaxCleanups
  /\ listeners' = Unsubscribed(listeners, g)
  /\ console' = Restored(console, g)
  /\ status' = [status EXCEPT ![g] = "torn"]
  /\ cleanups' = [cleanups EXCEPT ![g] = @ + 1]
  /\ last' = [op |-> "cleanup", g |-> g,
               consecutive |-> last.op = "cleanup" /\ last.g = g]
  /\ UNCHANGED <<consoleOutput, local, session, jar, unavailable, preActivation>>

\* The page delivers one event to the listeners of its target.
Deliver(target, e, vp) ==
  \E c \in {DispatchEvent(Context, listeners, target, e, vp)} :
     /\ local' = c.local
     /\ session' = c.session
     /\ jar' = c.jar
     /\ last' = [op |-> "dispatch", event |-> e, viewport |-> vp, trace |-> c.trace,
                 defaultPrevented |-> c.defaultPrevented, uncaught |-> c.uncaught,
                 wipes |-> c.wipes]
     /\ UNCHANGED <<console, listeners, status, consoleOutput, cleanups, unavailable,
                    preActivation>>

Resize == \E e \in ResizeEvents, vp \in Viewports : Deliver("window", e, vp)

ContextMenu == \E e \in MouseEvents, vp \in Viewports : Deliver("document", e, vp)

KeyDown == \E e \in KeyboardEvents, vp \in DockedViewports : Deliver("document", e, vp)

Next ==
  \/ \E g \in Guards : Activate(g)
  \/ \E g \in Guards : Cleanup(g)
  \/ Resize
  \/ ContextMenu
  \/ KeyDown

Spec == Init /\ [][Next]_vars

\* ============================================================== claims
Range(f) == {f[i] : i \in DOMAIN f}
Dispatched(type) == last.op = "dispatch" /\ last.event.type = type
Active(g) == status[g] = "active"
\* The calls guard g's handler made during the latest dispatch, in order.
Calls(g) == LET mine == SelectSeq(last.trace, LAMBDA t : t[1] = g)
            IN [i \in 1..Len(mine) |-> mine[i][2]]
Wiped(g) == "handleDevToolsOpen" \in Range(Calls(g))


\* ---------------------------------------------------------------- C1
\* C1 (as claimed): when a guard has been activated and deactivated and no
\* other guard was ever mounted, each of the five console slots holds the
\* function it held before the activation.
C1_RoundTripRestoresFiveSlots ==
  \A g \in Guards :
    (status[g] = "torn" /\ \A h \in Guards \ {g} : status[h] = "idle")
      => \A s \in Slots : console[s] = preActivation[g][s]

\* ---------------------------------------------------------------- C9
\* C9: a cleanup called again right after a cleanup of the same guard leaves
\* the listener list and the five console slots as that first call left them.
C9_SecondCleanupChangesNothing ==
  [][(last'.op = "cleanup" /\ last'.consecutive)
       => (listeners' = listeners /\ console' = console)]_vars

\* A guard's cleanup has run twice in a row.
C9_Witness ==
  /\ last.op = "cleanup"
  /\ last.consecutive
  /\ cleanups[last.g] = 2
  /\ console["log"] = consoleOutput[last.g]
  /\ \A i \in 1..Len(listeners) : listeners[i].handler[2] # last.g

\* --------------------------------------------------------------- C10
\* b's effect ran while a's guard was installed: the log slot b saw was a's no-op.
Overlapping(a, b) ==
  a # b /\ status[a] # "idle" /\ status[b] # "idle"
        /\ preActivation[b]["log"] = Noop("log", a)

\* C10 (as claimed): when a activates, then b, and each cleans up once, the log
\* slot ends up holding the function from before a's activation, and it holds
\* a no-op as long as one of the two is still active.
C10_OverlappingGuardsRestoreLog ==
  \A a, b \in Guards :
    (Overlapping(a, b) /\ cleanups[a] <= 1 /\ cleanups[b] <= 1)
      => /\ (status[a] = "torn" /\ status[b] = "torn")
              => console["log"] = preActivation[a]["log"]
         /\ (Active(a) \/ Active(b)) => IsNoop(console["log"])


\* ---------------------------------------------------------------- C2
\* C2 (as claimed): a resize delivered to an active guard runs the wipe exactly
\* when the width difference or the height difference exceeds 160.
C2_ResizeWipesIffGeometry ==
  Dispatched("resize") =>
    \A g \in Guards : Active(g) =>
      (Wiped(g) <=> \/ last.viewport.outerWidth - last.viewport.innerWidth > 160
                    \/ last.viewport.outerHeight - last.viewport.innerHeight > 160)

\* C2 (amended): a resize delivered to an active guard runs the wipe exactly
\* when the width difference or the height difference exceeds 160 or the
\* event object carries keyCode 123; it never suppresses a default action.
C2_ResizeWipesIffGeometryOrF12 ==
  Dispatched("resize") =>
    /\ ~last.defaultPrevented
    /\ \A g \in Guards : Active(g) =>
         (Wiped(g) <=> \/ last.viewport.outerWidth - last.viewport.innerWidth > 160
                       \/ last.viewport.outerHeight - last.viewport.innerHeight > 160
                       \/ ("keyCode" \in DOMAIN last.event /\ last.event.keyCode = 123))

\* A plain resize at exactly 160 in both directions reached an active guard
\* and nothing was wiped.
C2_Witness ==
  /\ Dispatched("resize")
  /\ "keyCode" \notin DOMAIN last.event
  /\ last.viewport.outerWidth - last.viewport.innerWidth = 160
  /\ last.viewport.outerHeight - last.viewport.innerHeight = 160
  /\ \E g \in Guards : Active(g)
  /\ last.trace = <<>>
  /\ local = {"token"} /\ session = {"sid"} /\ jar # <<>>

\* ---------------------------------------------------------------- C3
\* C3: a keydown delivered to an active guard has its default suppressed and
\* runs the wipe if and only if (ctrl and shift and keyCode in {73, 74, 67}) or
\* (ctrl and keyCode = 85) or keyCode = 123; any other keydown suppresses no
\* default and leaves both storages and the cookies as they were.
C3_KeyDownBlockedIffShortcut ==
  [][(last'.op = "dispatch" /\ last'.event.type = "keydown" /\ \E g \in Guards : Active(g))
       => LET e == last'.event
              shortcut == \/ e.ctrlKey /\ e.shiftKey /\ e.keyCode \in {73, 74, 67}
                          \/ e.ctrlKey /\ e.keyCode = 85
                          \/ e.keyCode = 123
              calls(g) == SelectSeq(last'.trace, LAMBDA t : t[1] = g)
          IN IF shortcut
             THEN /\ last'.defaultPrevented
                  /\ \A g \in Guards : Active(g) =>
                       calls(g) = << <<g, "preventDefault">>, <<g, "handleDevToolsOpen">> >>
             ELSE /\ ~last'.defaultPrevented
                  /\ last'.trace = <<>>
                  /\ local' = local /\ session' = session /\ jar' = jar]_vars

\* Ctrl+I without shift reached an active guard: nothing suppressed, nothing wiped.
C3_Witness ==
  /\ Dispatched("keydown")
  /\ last.event.keyCode = 73 /\ last.event.ctrlKey /\ ~last.event.shiftKey
  /\ \E g \in Guards : Active(g)
  /\ ~last.defaultPrevented
  /\ local = {"token"} /\ session = {"sid"} /\ jar # <<>>

\* ---------------------------------------------------------------- C4
\* C4: for a contextmenu, and for a keydown of a blocked shortcut, each active
\* guard's handler first suppresses the default and then invokes the wipe, once
\* each, whatever the viewport readings.
C4_SuppressThenWipeOnce ==
  (\/ Dispatched("contextmenu")
   \/ (Dispatched("keydown")
       /\ (\/ last.event.ctrlKey /\ last.event.shiftKey /\ last.event.keyCode \in {73, 74, 67}
           \/ last.event.ctrlKey /\ last.event.keyCode = 85
           \/ last.event.keyCode = 123)))
    => \A g \in Guards : Active(g) =>
         /\ Calls(g) = <<"preventDefault", "handleDevToolsOpen">>
         /\ last.defaultPrevented

\* A right click with no docked panel reached an active guard, which suppressed
\* the menu and wiped the stores.
C4_Witness ==
  /\ Dispatched("contextmenu")
  /\ last.viewport.outerWidth - last.viewport.innerWidth < 160
  /\ \E g \in Guards : Active(g) /\ Calls(g) = <<"preventDefault", "handleDevToolsOpen">>
  /\ last.defaultPrevented
  /\ local = {} /\ session = {}

\* ---------------------------------------------------------------- C8
\* C8: a guard whose cleanup has run has no listener left and takes part in no
\* later dispatch; an active guard has each of its three listeners exactly once;
\* with no guard active a dispatch calls nothing and suppresses nothing.
ListenersOf(g) == SelectSeq(listeners, LAMBDA l : l.handler[2] = g)

C8_CleanupUnsubscribesAll ==
  /\ \A g \in Guards :
       /\ status[g] = "torn" =>
            /\ ListenersOf(g) = <<>>
            /\ last.op = "dispatch" => Calls(g) = <<>>
       /\ Active(g) =>
            ListenersOf(g) =
              << Listener("window", "resize", <<"detectDevTools", g>>),
                 Listener("document", "contextmenu", <<"disableRightClick", g>>),
                 Listener("document", "keydown", <<"disableKeyboardShortcuts", g>>) >>
  /\ (last.op = "dispatch" /\ \A g \in Guards : ~Active(g))
       => last.trace = <<>> /\ ~last.defaultPrevented /\ last.wipes = <<>>

\* F12 is pressed after the only mounted guard was cleaned up: nothing runs.
C8_Witness ==
  /\ Dispatched("keydown") /\ last.event.keyCode = 123
  /\ \E g \in Guards : status[g] = "torn"
  /\ \A g \in Guards : ~Active(g)
  /\ listeners = <<>>
  /\ last.trace = <<>>
  /\ local = {"token"} /\ session = {"sid"} /\ jar # <<>>

\* ---------------------------------------------------------------- C5
\* C5 (as claimed): once a wipe has run to its end, local storage, session
\* storage and the cookie jar are all empty.
C5_WipeEmptiesEverything ==
  (last.op = "dispatch" /\ \E i \in 1..Len(last.wipes) : ~last.wipes[i].threw)
    => local = {} /\ session = {} /\ CookieGetter(jar) = <<>>

\* ---------------------------------------------------------------- C6
\* One leading space removed, not more.
StripOneLeadingSpace(s) == IF s # <<>> /\ Head(s) = " " THEN Tail(s) ELSE s

\* Everything from the first "=" on replaced by the expiry attributes.
ExpiredEntry(s) ==
  IF \E i \in 1..Len(s) : s[i] = "="
  THEN LET i == CHOOSE i \in 1..Len(s) : s[i] = "=" /\ \A j \in 1..(i - 1) : s[j] # "="
       IN SubSeq(s, 1, i - 1)
            \o <<"=", ";", "expires", "=", "Thu, 01 Jan 1970 00:00:00 GMT", ";", "path", "=", "/">>
  ELSE s

\* The positions of the ";" of a string, with both ends added.
Cuts(s) == {0, Len(s) + 1} \cup {i \in 1..Len(s) : s[i] = ";"}

\* C6: a wipe that reads a cookie string of n entries makes n assignments, the
\* i-th being the i-th entry without one leading space and with everything from
\* its first "=" on replaced by "=;expires=Thu, 01 Jan 1970 00:00:00 GMT;path=/".
C6_OneExpiryPerCookie ==
  last.op = "dispatch" =>
    \A k \in 1..Len(last.wipes) :
      LET w == last.wipes[k]
          cuts == Cuts(w.cookie)
          n == Cardinality(cuts) - 1
          start(i) == CHOOSE c \in cuts : Cardinality({d \in cuts : d < c}) = i - 1
          stop(i) == CHOOSE c \in cuts : Cardinality({d \in cuts : d < c}) = i
          entry(i) == SubSeq(w.cookie, start(i) + 1, stop(i) - 1)
      IN ~w.threw =>
           /\ Len(w.assignments) = n
           /\ \A i \in 1..n :
                w.assignments[i] = ExpiredEntry(StripOneLeadingSpace(entry(i)))

\* "a=1; b=2" was read and two assignments were made, one for a, one for b.
C6_Witness ==
  /\ last.op = "dispatch"
  /\ \E k \in 1..Len(last.wipes) :
       /\ last.wipes[k].cookie = <<"a", "=", "1", ";", " ", "b", "=", "2">>
       /\ last.wipes[k].assignments =
            << <<"a", "=", ";", "expires", "=", "Thu, 01 Jan 1970 00:00:00 GMT", ";", "path", "=", "/">>,
               <<"b", "=", ";", "expires", "=", "Thu, 01 Jan 1970 00:00:00 GMT", ";", "path", "=", "/">> >>
  /\ jar = <<>>

\* ---------------------------------------------------------------- C7
\* C7 (as claimed): in every wipe each storage surface that is available is
\* cleared, whichever other surface fails, and no exception leaves a handler.
C7_WipeContainsFailures ==
  last.op = "dispatch" =>
    /\ last.uncaught = <<>>
    /\ \A k \in 1..Len(last.wipes) : Surfaces \ unavailable \subseteq last.wipes[k].cleared

====
